---- MODULE Spec2Model ----
(***************************************************************************)
(* Model of the query-argument encoder of cap-bpa-client                   *)
(* (src/src/query-builder.ts): the QueryBuilder class, its private         *)
(* serialisation helpers and a caller holding the array that               *)
(* getArguments() handed out.                                              *)
(*                                                                         *)
(* A JavaScript string is a sequence of tokens (a token stands for a run   *)
(* of characters that is never split: a key name, a literal, "$", "=",     *)
(* "&", "?", ","), so string concatenation is \o and "" is << >>.          *)
(***************************************************************************)
EXTENDS Integers, Sequences, FiniteSets, TLC

(***************************************************************************)
(* JavaScript values that an argument object may carry.                    *)
(***************************************************************************)
Undef == [t |-> "undef"]
Null == [t |-> "null"]
Num(n) == [t |-> "num", n |-> n]
Str(s) == [t |-> "str", s |-> s]
Arr(els) == [t |-> "arr", els |-> els]
\* a plain object; `key` and `value` are its properties of those names
\* (Undef when the object has no such property)
Obj(k, v) == [t |-> "obj", key |-> k, value |-> v]

\* a test for undefined in place of truthiness
TruthyDefined(v) == v.t # "undef"

\* if (v) ...: the truthiness of a value
Truthy(v) ==
  CASE v.t = "undef" -> FALSE
    [] v.t = "null" -> FALSE
    [] v.t = "num" -> v.n # 0
    [] v.t = "str" -> v.s # << >>
    [] OTHER -> TRUE

\* `${v}` of a value that is not an array
ScalarString(v) ==
  CASE v.t = "undef" -> <<"undefined">>
    [] v.t = "null" -> <<"null">>
    [] v.t = "num" -> <<ToString(v.n)>>
    [] v.t = "str" -> v.s
    [] OTHER -> <<"[object Object]">>

\* Array.prototype.join(","): null and undefined elements join as ""
RECURSIVE ArrayJoin(_)
ArrayJoin(els) ==
  IF els = << >> THEN << >>
  ELSE LET h == Head(els)
           hs == IF h.t \in {"undef", "null"} THEN << >> ELSE ScalarString(h)
       IN IF Len(els) = 1 THEN hs ELSE hs \o <<",">> \o ArrayJoin(Tail(els))

\* `${v}`: the template-literal string form of a value
TemplateString(v) == IF v.t = "arr" THEN ArrayJoin(v.els) ELSE ScalarString(v)

\* item.key / item.value of a value that is neither null nor undefined
Prop(item, name) ==
  IF item.t = "obj" THEN (IF name = "key" THEN item.key ELSE item.value)
  ELSE Undef

\* arg.<k> of an argument object (a sequence of entries [k, v])
RECURSIVE Get(_, _)
Get(arg, k) ==
  IF arg = << >> THEN Undef
  ELSE IF Head(arg).k = k THEN Head(arg).v ELSE Get(Tail(arg), k)

(***************************************************************************)
(* The constants of query-builder.ts.                                      *)
(***************************************************************************)
SKIP_ARG == <<"$", "skip", "=">>
TOP_ARG == <<"$", "top", "=">>
INLINECOUNT_ARG == <<"$", "inlinecount", "=">>
EXPAND_ARG == <<"$", "expand", "=">>
ORDERBY_ARG == <<"$", "orderBy", "=">>

DEFAULT_KEYS == {"skip", "top", "inline", "expand", "orderBy", "inlinecount"}

isDefaultKey(key) == key \in DEFAULT_KEYS

(***************************************************************************)
(* The private helpers of QueryBuilder.  Each takes the joinedArgs array   *)
(* it works on and returns [joined, threw]: the array when the helper      *)
(* returns or raises, and whether it raised a TypeError.                   *)
(***************************************************************************)
Ok(joined) == [joined |-> joined, threw |-> FALSE]
Raise(joined) == [joined |-> joined, threw |-> TRUE]

\* reading .key of null or undefined raises a TypeError
isAttributeArgThrows(item) == item.t \in {"undef", "null"}

isAttributeArg(item) ==
  /\ Prop(item, "key") # Undef
  /\ Prop(item, "value") # Undef

handleAttributeArgument(joined, arg) ==
  IF arg.t \in {"undef", "null"} THEN Raise(joined)
  ELSE Ok(Append(joined, TemplateString(Prop(arg, "key")) \o <<"=">>
                           \o TemplateString(Prop(arg, "value"))))

\* for (const el of values) this.handleAttributeArgument(el)
RECURSIVE AttributeLoop(_, _)
AttributeLoop(joined, values) ==
  IF values = << >> THEN Ok(joined)
  ELSE LET r == handleAttributeArgument(joined, Head(values))
       IN IF r.threw THEN r ELSE AttributeLoop(r.joined, Tail(values))

\* for (const el of values) this.joinedArgs.push(`${key}=${el}`)
RECURSIVE ElementLoop(_, _, _)
ElementLoop(joined, key, values) ==
  IF values = << >> THEN joined
  ELSE ElementLoop(Append(joined, <<key, "=">> \o TemplateString(Head(values))),
                   key, Tail(values))

handleArrayArg(joined, key, values) ==
  IF Len(values) <= 0 THEN Ok(joined)
  ELSE IF isAttributeArgThrows(values[1]) THEN Raise(joined)
  ELSE IF isAttributeArg(values[1]) THEN AttributeLoop(joined, values)
  ELSE Ok(ElementLoop(joined, key, values))

\* a loop body that does not skip an undefined value
AdditionalEntryKeepsUndefined(joined, k, v) ==
  IF isDefaultKey(k) THEN Ok(joined)
  ELSE IF v.t = "arr" THEN handleArrayArg(joined, k, v.els)
  ELSE IF v = Undef THEN Ok(Append(joined, <<k, "=">> \o TemplateString(v)))
  ELSE IF isAttributeArgThrows(v) THEN Raise(joined)
  ELSE IF isAttributeArg(v) THEN handleAttributeArgument(joined, v)
  ELSE Ok(Append(joined, <<k, "=">> \o TemplateString(v)))

\* a loop body without the isAttributeArg branch
AdditionalEntryNoPair(joined, k, v) ==
  IF isDefaultKey(k) \/ v = Undef THEN Ok(joined)
  ELSE IF v.t = "arr" THEN handleArrayArg(joined, k, v.els)
  ELSE IF isAttributeArgThrows(v) THEN Raise(joined)
  ELSE Ok(Append(joined, <<k, "=">> \o TemplateString(v)))

\* the body of the loop of parseAdditionalArgs for one entry [k, v]
AdditionalEntry(joined, k, v) ==
  IF isDefaultKey(k) \/ v = Undef THEN Ok(joined)
  ELSE IF v.t = "arr" THEN handleArrayArg(joined, k, v.els)
  ELSE IF isAttributeArgThrows(v) THEN Raise(joined)
  ELSE IF isAttributeArg(v) THEN handleAttributeArgument(joined, v)
  ELSE Ok(Append(joined, <<k, "=">> \o TemplateString(v)))

\* for (const [k, v] of Object.entries(arg)) ...
RECURSIVE EntryLoop(_, _)
EntryLoop(joined, entries) ==
  IF entries = << >> THEN Ok(joined)
  ELSE LET r == AdditionalEntry(joined, Head(entries).k, Head(entries).v)
       IN IF r.threw THEN r ELSE EntryLoop(r.joined, Tail(entries))

parseAdditionalArgs(joined, arg) == EntryLoop(joined, arg)

\* a PushDefault that unshifts instead of pushing
PushDefaultFront(joined, arg, k, prefix) ==
  IF Truthy(Get(arg, k)) THEN <<prefix \o TemplateString(Get(arg, k))>> \o joined
  ELSE joined

\* a PushDefault that pushes one fragment per element of an array value
RECURSIVE PrefixedElements(_, _, _)
PrefixedElements(joined, prefix, values) ==
  IF values = << >> THEN joined
  ELSE PrefixedElements(Append(joined, prefix \o TemplateString(Head(values))),
                        prefix, Tail(values))

PushDefaultFlatten(joined, arg, k, prefix) ==
  IF ~Truthy(Get(arg, k)) THEN joined
  ELSE IF Get(arg, k).t = "arr" THEN PrefixedElements(joined, prefix, Get(arg, k).els)
  ELSE Append(joined, prefix \o TemplateString(Get(arg, k)))

\* if (arg.<k>) this.joinedArgs.push(`${prefix}${arg.<k>}`)
PushDefault(joined, arg, k, prefix) ==
  IF Truthy(Get(arg, k)) THEN Append(joined, prefix \o TemplateString(Get(arg, k)))
  ELSE joined

\* a parseArgument that serialises the additional entries first
parseArgumentAdditionalFirst(joined, arg) ==
  LET r == parseAdditionalArgs(joined, arg)
      j1 == PushDefault(r.joined, arg, "skip", SKIP_ARG)
      j2 == PushDefault(j1, arg, "top", TOP_ARG)
      j3 == PushDefault(j2, arg, "inlinecount", INLINECOUNT_ARG)
      j4 == PushDefault(j3, arg, "expand", EXPAND_ARG)
      j5 == PushDefault(j4, arg, "orderBy", ORDERBY_ARG)
  IN [joined |-> j5, threw |-> r.threw]

parseArgument(joined, arg) ==
  LET j1 == PushDefault(joined, arg, "skip", SKIP_ARG)
      j2 == PushDefault(j1, arg, "top", TOP_ARG)
      j3 == PushDefault(j2, arg, "inlinecount", INLINECOUNT_ARG)
      j4 == PushDefault(j3, arg, "expand", EXPAND_ARG)
      j5 == PushDefault(j4, arg, "orderBy", ORDERBY_ARG)
  IN parseAdditionalArgs(j5, arg)

\* joinedArgs.join("&")
RECURSIVE Join(_)
Join(frags) ==
  IF frags = << >> THEN << >>
  ELSE IF Len(frags) = 1 THEN Head(frags)
  ELSE Head(frags) \o <<"&">> \o Join(Tail(frags))

\* build() that forgets the "?" prefix
BuildStringNoPrefix(joined) == IF Len(joined) <= 0 THEN << >> ELSE Join(joined)

\* the value build() returns for a joinedArgs array
BuildString(joined) == IF Len(joined) <= 0 THEN << >> ELSE <<"?">> \o Join(joined)

(***************************************************************************)
(* Argument objects.  An argument object is the sequence of its entries    *)
(* [k, v] in Object.entries order (insertion order, keys distinct).        *)
(***************************************************************************)
Entry(k, v) == [k |-> k, v |-> v]

RandomValue == Obj(Str(<<"random">>), Str(<<"value">>))

\* the arguments the stateful specification passes to addArgument
BuilderArgs ==
  { <<Entry("skip", Num(2))>>,
    <<Entry("top", Num(10))>>,
    <<Entry("attributes", RandomValue)>>,
    <<Entry("priority", Arr(<<Str(<<"LOW">>), Str(<<"MEDIUM">>)>>))>>,
    <<Entry("skip", Num(0)), Entry("id", Undef)>>,
    <<Entry("id", Null)>>,
    <<Entry("skip", Num(2)), Entry("attributes", Arr(<<RandomValue, Null>>))>> }

\* what a caller pushes onto the array getArguments() returned
CallerArgs == { <<Entry("top", Num(5))>> }

(***************************************************************************)
(* The inputs of the encoding specification SpecEncode: one addArgument    *)
(* call on a new builder.                                                  *)
(***************************************************************************)
\* bound: the length of an array value
MaxArrLen == 2

\* bound: the number of entries of a generated argument object
MaxEntries == 3

PotatoValue == Obj(Str(<<"potato">>), Str(<<"carrot">>))

\* all sequences over S of length 0..n
RECURSIVE SeqsUpTo(_, _)
SeqsUpTo(S, n) ==
  IF n = 0 THEN {<< >>}
  ELSE LET shorter == SeqsUpTo(S, n - 1)
       IN shorter \cup {Append(q, x) : q \in {r \in shorter : Len(r) = n - 1}, x \in S}

Keys == {"skip", "top", "inlinecount", "expand", "orderBy", "inline",
         "priority", "attributes"}

Scalars == {Num(0), Num(10), Str(<< >>), Str(<<"LOW">>), Null, Undef}

\* an Attribute Pair, and an object that lacks the `value` property
Objects == {RandomValue, Obj(Str(<<"random">>), Undef)}

Elements == {Str(<<"LOW">>), Str(<<"MEDIUM">>), RandomValue, Null, Undef}

Values == Scalars \cup Objects \cup {Arr(els) : els \in SeqsUpTo(Elements, MaxArrLen)}

\* every key with every value, alone in its argument object
OneEntryArgs == {<<Entry(k, v)>> : k \in Keys, v \in Values}

\* the entries that the several-entry argument objects are made of
OrderEntries ==
  { Entry("skip", Num(10)), Entry("skip", Num(0)),
    Entry("top", Num(2)),
    Entry("inlinecount", Str(<<"allpages">>)),
    Entry("expand", Str(<<"something">>)),
    Entry("orderBy", Str(<<"id desc">>)),
    Entry("inline", Str(<<"x">>)),
    Entry("priority", Arr(<<Str(<<"LOW">>), Str(<<"MEDIUM">>)>>)),
    Entry("priority", Arr(<<Str(<<"LOW">>), RandomValue>>)),
    Entry("priority", Null),
    Entry("priority", Arr(<< >>)),
    Entry("attributes", RandomValue),
    Entry("attributes", Arr(<<RandomValue, PotatoValue>>)),
    Entry("attributes", Undef) }

DistinctKeys(arg) == \A i, j \in 1..Len(arg) : arg[i].k = arg[j].k => i = j

SeveralEntryArgs == {arg \in SeqsUpTo(OrderEntries, MaxEntries) : DistinctKeys(arg)}

\* the argument objects of the unit tests, and the second one with its
\* fields written in another order
TestDefaultArgs ==
  << Entry("skip", Num(10)), Entry("top", Num(2)),
     Entry("inlinecount", Str(<<"allpages">>)),
     Entry("expand", Str(<<"something">>)),
     Entry("orderBy", Str(<<"id desc">>)) >>

TestTaskArgs ==
  TestDefaultArgs \o
  << Entry("workflowInstanceId", Str(<<"mambonumber5">>)),
     Entry("dueDate", Str(<<"2025-02-01">>)),
     Entry("priority", Arr(<<Str(<<"LOW">>), Str(<<"MEDIUM">>)>>)) >>

TestTaskArgsReordered ==
  << Entry("priority", Arr(<<Str(<<"LOW">>), Str(<<"MEDIUM">>)>>)),
     Entry("orderBy", Str(<<"id desc">>)),
     Entry("expand", Str(<<"something">>)),
     Entry("dueDate", Str(<<"2025-02-01">>)),
     Entry("inlinecount", Str(<<"allpages">>)),
     Entry("workflowInstanceId", Str(<<"mambonumber5">>)),
     Entry("top", Num(2)),
     Entry("skip", Num(10)) >>

TestWorkflowArgs ==
  << Entry("skip", Num(10)),
     Entry("definitionId", Str(<<"some-definition">>)),
     Entry("attributes", Arr(<<RandomValue, PotatoValue>>)) >>

TestArgs == {TestDefaultArgs, TestTaskArgs, TestTaskArgsReordered, TestWorkflowArgs}

EncodeArgs == OneEntryArgs \cup SeveralEntryArgs \cup TestArgs

\* bound: build() calls in a row
MaxBuilds == 2

\* bound: addArgument calls between two flushes, and the length a caller
\* grows the returned array to
MaxCalls == 2

(***************************************************************************)
(* State.                                                                  *)
(*   arguments, joinedArgs  the two private arrays of the QueryBuilder     *)
(*   op      the operation that produced this state                        *)
(*   threw   whether that operation raised                                 *)
(*   built   the string it returned, if it was build()                     *)
(*   held    whether the caller holds the array getArguments() returned    *)
(*           (the very object this.arguments refers to)                    *)
(*   passed  log: the arguments passed to addArgument since creation or    *)
(*           the last flush                                                *)
(*   tampered  log: the caller has mutated the held array since then       *)
(*   flushed   log: a flush() has emptied a builder that held something     *)
(*   returned  what the operation handed back: "this" (the builder         *)
(*           itself), "array", "string", "void", or "none" when it raised  *)
(*           or was no call on the builder                                 *)
(*   query, result  the last input of constructQuery and what it returned  *)
(*   builds  log: the build() calls in a row that led to this state        *)
(*   serviceConnection, connects, calls  the WorkflowServiceClient and the *)
(*           calls of its methods that are under way (see below)           *)
(***************************************************************************)
VARIABLES arguments, joinedArgs, op, threw, built, held, passed, tampered,
          flushed, returned, query, result, builds,
          serviceConnection, connects, calls

vars == <<arguments, joinedArgs, op, threw, built, held, passed, tampered,
          flushed, returned, query, result, builds,
          serviceConnection, connects, calls>>

builderVars == <<arguments, joinedArgs, op, threw, built, held, passed, tampered,
                 flushed, returned, query, result, builds>>

clientVars == <<serviceConnection, connects, calls>>

(***************************************************************************)
(* WorkflowServiceClient (src/src/client.ts).                              *)
(*   serviceConnection  the cached Service: 0 while undefined, else the     *)
(*           number of the cds.connect.to invocation that produced it      *)
(*   connects  how many times cds.connect.to has been invoked              *)
(*   calls   one record per call of a client method:                       *)
(*     method   the public method called ("none" before the call)          *)
(*     inner    the method whose body is running (deleteWorkflowInstances  *)
(*              runs getWorkflowInstanceList, then                          *)
(*              updateWorkflowInstanceList)                                 *)
(*     pc       where the body stands: "idle", "connecting" (awaiting      *)
(*              cds.connect.to), "haveClient" (getClient has returned),    *)
(*              "awaiting" (awaiting the transport call), "listed" (the    *)
(*              list of deleteWorkflowInstances has resolved), "done"      *)
(*     pending  the cds.connect.to invocation this call awaits (0: none)   *)
(*     client   the local `client` of the running body: the Service that   *)
(*              getClient returned (0 outside the body)                    *)
(*     payload  the payload of the patch request                           *)
(*     workflows  what the list request resolved with                      *)
(*     listed   whether the list request has resolved                      *)
(*     requests the transport calls this call has issued                   *)
(*     failed   the error the connection or the transport failed with      *)
(*     logs     the errors this call handed to LOGGER.error                *)
(*     thrown   the error the last catch block re-raised                   *)
(*     outcome, rejection  how the promise of the call settled             *)
(***************************************************************************)
GENERIC_ERR_MSG == "Communication with SAP BPA failed with error"

usePrefix == TRUE

prefix == IF usePrefix THEN <<"/v1">> ELSE << >>

TASK_INSTANCES_URI == prefix \o <<"/task-instances">>

WORKFLOW_INSTANCES_URI == prefix \o <<"/workflow-instances">>

\* the calls of client methods that may be under way at once
MaxClientCalls == 2

ClientCalls == 1..MaxClientCalls

\* errors cds.connect.to or the transport may fail with
Errors == {"E1", "E2"}

\* a workflow instance as the service returns it
WorkflowInstance(id) == [id |-> id]

\* what the list request may resolve with
WorkflowInstanceLists ==
  { Undef,
    Arr(<< >>),
    Arr(<<WorkflowInstance("w2"), WorkflowInstance("w1")>>) }

\* what the transport call of `inner` may resolve with; the client looks
\* into the value of the list of deleteWorkflowInstances only
Responses(inner) ==
  IF inner = "getWorkflowInstanceList" THEN WorkflowInstanceLists ELSE {Undef}

\* the methods called: one that makes a single transport call, and the one
\* that calls two other methods of the client
ClientMethods == {"getTaskList", "deleteWorkflowInstances"}

\* builder arguments of the query builder handed to the client methods
ClientBuilderArgs == { <<Entry("top", Num(10))>> }

NoCall ==
  [method |-> "none", inner |-> "none", pc |-> "idle", pending |-> 0,
   client |-> 0, payload |-> << >>, workflows |-> Undef, listed |-> FALSE,
   requests |-> << >>, failed |-> "none", logs |-> << >>, thrown |-> "none",
   outcome |-> "pending", rejection |-> "none"]

\* new QueryBuilder(), new WorkflowServiceClient(binding)
Init ==
  /\ arguments = << >>
  /\ joinedArgs = << >>
  /\ op = "new"
  /\ threw = FALSE
  /\ built = << >>
  /\ held = FALSE
  /\ passed = << >>
  /\ tampered = FALSE
  /\ flushed = FALSE
  /\ returned = "this"
  /\ query = Undef
  /\ result = << >>
  /\ builds = 0
  /\ serviceConnection = 0
  /\ connects = 0
  /\ calls = [c \in ClientCalls |-> NoCall]

\* an addArgument that records the argument only when it produced fragments
addArgumentWhenFragments(arg) ==
  LET r == parseArgument(joinedArgs, arg)
  IN /\ arguments' = IF r.joined = joinedArgs THEN arguments
                     ELSE Append(arguments, arg)
     /\ joinedArgs' = r.joined
     /\ threw' = r.threw
     /\ op' = "addArgument"
     /\ built' = << >>
     /\ passed' = Append(passed, arg)
     /\ returned' = IF r.threw THEN "none" ELSE "this"
     /\ builds' = 0
     /\ UNCHANGED <<held, tampered, flushed, query, result>>
     /\ UNCHANGED clientVars

\* an addArgument that ends without `return this`
addArgumentReturnsNothing(arg) ==
  LET r == parseArgument(joinedArgs, arg)
  IN /\ arguments' = Append(arguments, arg)
     /\ joinedArgs' = r.joined
     /\ threw' = r.threw
     /\ op' = "addArgument"
     /\ built' = << >>
     /\ passed' = Append(passed, arg)
     /\ returned' = IF r.threw THEN "none" ELSE "void"
     /\ builds' = 0
     /\ UNCHANGED <<held, tampered, flushed, query, result>>
     /\ UNCHANGED clientVars

addArgument(arg) ==
  LET r == parseArgument(joinedArgs, arg)
  IN /\ arguments' = Append(arguments, arg)
     /\ joinedArgs' = r.joined
     /\ threw' = r.threw
     /\ op' = "addArgument"
     /\ built' = << >>
     /\ passed' = Append(passed, arg)
     /\ returned' = IF r.threw THEN "none" ELSE "this"
     /\ builds' = 0
     /\ UNCHANGED <<held, tampered, flushed, query, result>>
     /\ UNCHANGED clientVars

\* returns this.arguments itself: from now on the caller holds the array
getArguments ==
  /\ held' = TRUE
  /\ op' = "getArguments"
  /\ threw' = FALSE
  /\ built' = << >>
  /\ returned' = "array"
  /\ builds' = 0
  /\ UNCHANGED <<arguments, joinedArgs, passed, tampered, flushed, query, result>>
  /\ UNCHANGED clientVars

\* a flush that clears the history and leaves the fragments
flushArgumentsOnly ==
  /\ arguments' = << >>
  /\ joinedArgs' = joinedArgs
  /\ op' = "flush"
  /\ threw' = FALSE
  /\ built' = << >>
  /\ passed' = << >>
  /\ tampered' = FALSE
  /\ flushed' = (flushed \/ arguments # << >> \/ joinedArgs # << >>)
  /\ returned' = "void"
  /\ builds' = 0
  /\ UNCHANGED <<held, query, result>>
  /\ UNCHANGED clientVars

flush ==
  /\ arguments' = << >>
  /\ joinedArgs' = << >>
  /\ op' = "flush"
  /\ threw' = FALSE
  /\ built' = << >>
  /\ passed' = << >>
  /\ tampered' = FALSE
  /\ flushed' = (flushed \/ arguments # << >> \/ joinedArgs # << >>)
  /\ returned' = "void"
  /\ builds' = 0
  /\ UNCHANGED <<held, query, result>>
  /\ UNCHANGED clientVars

\* a build() that empties the fragments it has joined
buildAndClear ==
  /\ built' = BuildString(joinedArgs)
  /\ joinedArgs' = << >>
  /\ op' = "build"
  /\ threw' = FALSE
  /\ returned' = "string"
  /\ builds' = builds + 1
  /\ UNCHANGED <<arguments, held, passed, tampered, flushed, query, result>>
  /\ UNCHANGED clientVars

build ==
  /\ built' = BuildString(joinedArgs)
  /\ op' = "build"
  /\ threw' = FALSE
  /\ returned' = "string"
  /\ builds' = builds + 1
  /\ UNCHANGED <<arguments, joinedArgs, held, passed, tampered, flushed, query,
                 result>>
  /\ UNCHANGED clientVars

\* the caller mutates the array it was handed: result.push(x)
callerPush(x) ==
  /\ held
  /\ Len(arguments) < MaxCalls
  /\ arguments' = Append(arguments, x)
  /\ op' = "callerPush"
  /\ threw' = FALSE
  /\ built' = << >>
  /\ tampered' = TRUE
  /\ returned' = "none"
  /\ builds' = 0
  /\ UNCHANGED <<joinedArgs, held, passed, flushed, query, result>>
  /\ UNCHANGED clientVars

\* result.pop()
callerPop ==
  /\ held
  /\ arguments # << >>
  /\ arguments' = SubSeq(arguments, 1, Len(arguments) - 1)
  /\ op' = "callerPop"
  /\ threw' = FALSE
  /\ built' = << >>
  /\ tampered' = TRUE
  /\ returned' = "none"
  /\ builds' = 0
  /\ UNCHANGED <<joinedArgs, held, passed, flushed, query, result>>
  /\ UNCHANGED clientVars

\* result.length = 0
callerTruncate ==
  /\ held
  /\ arguments # << >>
  /\ arguments' = << >>
  /\ op' = "callerTruncate"
  /\ threw' = FALSE
  /\ built' = << >>
  /\ tampered' = TRUE
  /\ returned' = "none"
  /\ builds' = 0
  /\ UNCHANGED <<joinedArgs, held, passed, flushed, query, result>>
  /\ UNCHANGED clientVars

CallerOps == {"callerPush", "callerPop", "callerTruncate"}

(***************************************************************************)
(* constructQuery of utils.ts, called with the builder of this model or    *)
(* with a value that is not a builder.                                     *)
(***************************************************************************)
\* the QueryBuilder instance, as a value passed to constructQuery
Builder == [t |-> "builder"]

\* the values a caller passes as query
QueryInputs ==
  { Undef, Null, Builder, Str(<< >>), Str(<<"randomParameter=true">>),
    Str(<<"?", "$", "skip", "=", "10">>) }

\* a constructQuery that tests for undefined only
constructQueryUndefinedOnly(q) ==
  IF q = Undef THEN << >>
  ELSE IF q.t = "str" THEN q.s
  ELSE BuildString(joinedArgs)

\* a constructQuery that puts "?" before a string that lacks it
constructQueryPrefixed(q) ==
  IF ~Truthy(q) THEN << >>
  ELSE IF q.t = "str" THEN (IF Head(q.s) = "?" THEN q.s ELSE <<"?">> \o q.s)
  ELSE BuildString(joinedArgs)

\* a constructQuery that returns the fragments of the builder unprefixed
constructQueryJoinOnly(q) ==
  IF ~Truthy(q) THEN << >>
  ELSE IF q.t = "str" THEN q.s
  ELSE Join(joinedArgs)

\* the string constructQuery(q) returns; q.build() reads this builder
constructQuery(q) ==
  IF ~Truthy(q) THEN << >>
  ELSE IF q.t = "str" THEN q.s
  ELSE BuildString(joinedArgs)

\* a call of constructQuery(q)
callConstructQuery(q) ==
  /\ query' = q
  /\ result' = constructQuery(q)
  /\ op' = "constructQuery"
  /\ threw' = FALSE
  /\ built' = << >>
  /\ returned' = "string"
  /\ builds' = 0
  /\ UNCHANGED <<arguments, joinedArgs, held, passed, tampered, flushed>>
  /\ UNCHANGED clientVars

\* getClient(), up to its first await: a cached connection is returned, a
\* missing one makes the call invoke cds.connect.to and await it
getClient(call) ==
  IF serviceConnection # 0
  THEN [call EXCEPT !.client = serviceConnection, !.pc = "haveClient"]
  ELSE [call EXCEPT !.pending = connects + 1, !.pc = "connecting"]

\* the invocations of cds.connect.to after getClient() has run once more
connectsAfterGetClient ==
  IF serviceConnection # 0 THEN connects ELSE connects + 1

\* a catch block that logs the message alone and raises a new error
catchGeneric(call, e) ==
  [call EXCEPT !.logs = Append(@, GENERIC_ERR_MSG), !.thrown = GENERIC_ERR_MSG]

\* catch (e) { LOGGER.error(GENERIC_ERR_MSG, e); throw e; }
catch(call, e) ==
  [call EXCEPT !.logs = Append(@, e), !.thrown = e]

\* error e raised inside the try block of call.inner: its catch block runs,
\* then, for deleteWorkflowInstances, the catch block of the outer method,
\* and the promise of the call rejects with what was raised last
methodFails(call, e) ==
  LET inner == catch([call EXCEPT !.failed = e], e)
      outer == IF call.method = "deleteWorkflowInstances"
               THEN catch(inner, inner.thrown)
               ELSE inner
  IN [outer EXCEPT !.pc = "done", !.outcome = "rejected",
                   !.rejection = outer.thrown,
                   !.pending = 0, !.client = 0]

\* a payload that lists the instances without marking them deleted
deletedPayloadUnmarked(workflows) ==
  IF workflows = Undef THEN << >>
  ELSE [j \in 1..Len(workflows.els) |->
          [id |-> workflows.els[j].id, deleted |-> FALSE]]

\* workflows?.map((el) => ({ id: el.id, deleted: true })) ?? []
deletedPayload(workflows) ==
  IF workflows = Undef THEN << >>
  ELSE [j \in 1..Len(workflows.els) |->
          [id |-> workflows.els[j].id, deleted |-> TRUE]]

\* the transport call the body of `inner` makes once it has the client
transportCall(call) ==
  CASE call.inner = "getTaskList" ->
         [verb |-> "get",
          path |-> TASK_INSTANCES_URI \o BuildString(joinedArgs),
          body |-> << >>]
    [] call.inner = "getWorkflowInstanceList" ->
         [verb |-> "get",
          path |-> WORKFLOW_INSTANCES_URI \o BuildString(joinedArgs),
          body |-> << >>]
    [] call.inner = "updateWorkflowInstanceList" ->
         [verb |-> "patch",
          path |-> WORKFLOW_INSTANCES_URI,
          body |-> call.payload]

\* the method a call of `method` runs first
firstInner(method) ==
  IF method = "deleteWorkflowInstances" THEN "getWorkflowInstanceList"
  ELSE method

\* a client method is called: its body runs up to the first await, which
\* is inside getClient()
callMethod(c, method) ==
  /\ calls[c].pc = "idle"
  /\ LET call == [NoCall EXCEPT !.method = method,
                                !.inner = firstInner(method)]
     IN calls' = [calls EXCEPT ![c] = getClient(call)]
  /\ connects' = connectsAfterGetClient
  /\ UNCHANGED serviceConnection
  /\ UNCHANGED builderVars

\* cds.connect.to resolves: getClient() stores the Service and returns it
connectResolves(c) ==
  /\ calls[c].pc = "connecting"
  /\ serviceConnection' = calls[c].pending
  /\ calls' = [calls EXCEPT ![c].client = calls[c].pending,
                            ![c].pending = 0,
                            ![c].pc = "haveClient"]
  /\ UNCHANGED connects
  /\ UNCHANGED builderVars

\* cds.connect.to rejects with e
connectRejects(c, e) ==
  /\ calls[c].pc = "connecting"
  /\ calls' = [calls EXCEPT ![c] = methodFails(calls[c], e)]
  /\ UNCHANGED <<serviceConnection, connects>>
  /\ UNCHANGED builderVars

\* the body goes on after `await this.getClient()`: it issues its request
sendRequest(c) ==
  /\ calls[c].pc = "haveClient"
  /\ calls' = [calls EXCEPT ![c].requests = Append(@, transportCall(calls[c])),
                            ![c].pc = "awaiting"]
  /\ UNCHANGED <<serviceConnection, connects>>
  /\ UNCHANGED builderVars

\* the transport call resolves with res: the method returns, or, for the
\* list of deleteWorkflowInstances, hands the instances to the outer body
requestResolves(c, res) ==
  /\ calls[c].pc = "awaiting"
  /\ res \in Responses(calls[c].inner)
  /\ calls' =
       IF calls[c].method = "deleteWorkflowInstances"
          /\ calls[c].inner = "getWorkflowInstanceList"
       THEN [calls EXCEPT ![c].workflows = res, ![c].listed = TRUE,
                          ![c].client = 0, ![c].pc = "listed"]
       ELSE [calls EXCEPT ![c].client = 0, ![c].pc = "done",
                          ![c].outcome = "resolved"]
  /\ UNCHANGED <<serviceConnection, connects>>
  /\ UNCHANGED builderVars

\* the transport call rejects with e
requestRejects(c, e) ==
  /\ calls[c].pc = "awaiting"
  /\ calls' = [calls EXCEPT ![c] = methodFails(calls[c], e)]
  /\ UNCHANGED <<serviceConnection, connects>>
  /\ UNCHANGED builderVars

\* deleteWorkflowInstances goes on after the list: it maps the instances to
\* the payload and calls updateWorkflowInstanceList, which runs up to the
\* await inside getClient()
deleteWorkflowInstances(c) ==
  /\ calls[c].pc = "listed"
  /\ LET call == [calls[c] EXCEPT
                    !.payload = deletedPayload(calls[c].workflows),
                    !.inner = "updateWorkflowInstanceList"]
     IN calls' = [calls EXCEPT ![c] = getClient(call)]
  /\ connects' = connectsAfterGetClient
  /\ UNCHANGED serviceConnection
  /\ UNCHANGED builderVars

Next ==
  \/ \E arg \in BuilderArgs :
       Len(passed) < MaxCalls /\ Len(arguments) < MaxCalls /\ addArgument(arg)
  \/ getArguments
  \/ flush
  \/ builds < MaxBuilds /\ build
  \/ \E x \in CallerArgs : callerPush(x)
  \/ callerPop
  \/ callerTruncate

Spec == Init /\ [][Next]_vars

\* one addArgument call on a new builder, then build()
NextEncode ==
  \/ op = "new" /\ \E arg \in EncodeArgs : addArgument(arg)
  \/ op = "addArgument" /\ build

SpecEncode == Init /\ [][NextEncode]_vars

\* a builder that is filled, built, flushed and handed to constructQuery
NextQuery ==
  \/ \E arg \in BuilderArgs : Len(passed) < MaxCalls /\ addArgument(arg)
  \/ flush
  \/ builds < MaxBuilds /\ build
  \/ \E q \in QueryInputs : callConstructQuery(q)

SpecQuery == Init /\ [][NextQuery]_vars

\* a query builder is filled, then client methods are called with it, each
\* call running between its awaits while the others wait
NextClient ==
  \/ /\ op = "new"
     /\ \A c \in ClientCalls : calls[c].pc = "idle"
     /\ \E arg \in ClientBuilderArgs : addArgument(arg)
  \/ \E c \in ClientCalls, method \in ClientMethods : callMethod(c, method)
  \/ \E c \in ClientCalls : connectResolves(c)
  \/ \E c \in ClientCalls, e \in Errors : connectRejects(c, e)
  \/ \E c \in ClientCalls : sendRequest(c)
  \/ \E c \in ClientCalls, res \in WorkflowInstanceLists : requestResolves(c, res)
  \/ \E c \in ClientCalls, e \in Errors : requestRejects(c, e)
  \/ \E c \in ClientCalls : deleteWorkflowInstances(c)

SpecClient == Init /\ [][NextClient]_vars

(***************************************************************************)
(* Properties of the stateful builder (specification Spec).                *)
(***************************************************************************)
IsPrefix(s, t) == Len(s) <= Len(t) /\ SubSeq(t, 1, Len(s)) = s

\* where fragment i starts in the built string: after "?" and after the
\* earlier fragments, each followed by one separator
RECURSIVE FragmentStart(_, _)
FragmentStart(frags, i) ==
  IF i = 1 THEN 1
  ELSE FragmentStart(frags, i - 1) + Len(frags[i - 1]) + 1

\* C1: build() returns "" exactly when joinedArgs is empty; otherwise the
\* result is "?", then the fragments in joinedArgs order, each fragment but
\* the last followed by exactly one "&", and nothing else.
C1_BuildFormat ==
  op = "build" =>
    /\ (built = << >>) <=> (joinedArgs = << >>)
    /\ joinedArgs # << >> =>
         LET n == Len(joinedArgs)
         IN /\ built[1] = "?"
            /\ Len(built) = FragmentStart(joinedArgs, n) + Len(joinedArgs[n])
            /\ \A i \in 1..n :
                 LET from == FragmentStart(joinedArgs, i)
                 IN /\ SubSeq(built, from + 1, from + Len(joinedArgs[i]))
                         = joinedArgs[i]
                    /\ i < n => built[from + Len(joinedArgs[i]) + 1] = "&"

\* a build() of three fragments coming from two calls
C1_Witness ==
  /\ op = "build"
  /\ Len(joinedArgs) = 3
  /\ built = <<"?", "$", "skip", "=", "2", "&", "priority", "=", "LOW", "&",
               "priority", "=", "MEDIUM">>

\* C2: addArgument never raises.
C2_NeverRaises == op = "addArgument" => ~threw

\* the builder a new QueryBuilder() becomes after the calls listed in `argList`
RECURSIVE Replay(_, _)
Replay(joined, argList) ==
  IF argList = << >> THEN joined
  ELSE Replay(parseArgument(joined, Head(argList)).joined, Tail(argList))

\* C3: flush() leaves both arrays empty; with no call since the flush,
\* build() returns "" and getArguments() returns an empty array; and a
\* build() after calls made since the flush returns what a new QueryBuilder
\* returns after the same calls.
C3_FlushResets ==
  /\ op = "flush" => arguments = << >> /\ joinedArgs = << >>
  /\ op = "build" /\ passed = << >> => built = << >>
  /\ op = "getArguments" /\ passed = << >> /\ ~tampered => arguments = << >>
  /\ op = "build" => built = BuildString(Replay(<< >>, passed))

\* a builder that was flushed while holding fragments, reused, and built
C3_Witness ==
  /\ flushed
  /\ op = "build"
  /\ passed = << <<Entry("top", Num(10))>> >>
  /\ built = <<"?", "$", "top", "=", "10">>

\* C4: an addArgument call keeps the fragments accumulated so far as a
\* prefix of joinedArgs and appends the fragments of its own argument (those
\* a new builder emits for it) after them.
C4_AppendOnly ==
  [][op' = "addArgument" =>
       /\ IsPrefix(joinedArgs, joinedArgs')
       /\ joinedArgs' = joinedArgs \o parseArgument(<< >>, passed'[Len(passed')]).joined
    ]_vars

\* addArgument({skip: 2}).addArgument({top: 10})
C4_Witness ==
  /\ op = "addArgument"
  /\ passed = << <<Entry("skip", Num(2))>>, <<Entry("top", Num(10))>> >>
  /\ joinedArgs = << <<"$", "skip", "=", "2">>, <<"$", "top", "=", "10">> >>

\* C6: a caller mutating the array getArguments() returned changes neither
\* the Argument History nor any other state of the builder.
C6_DefensiveCopy ==
  [][op' \in CallerOps => arguments' = arguments /\ joinedArgs' = joinedArgs]_vars

\* C7: as long as only addArgument (and the read operations) ran since
\* creation or the last flush, the Argument History is exactly the sequence
\* of arguments passed, one entry per call, in call order.
C7_HistoryIsCalls == ~tampered => arguments = passed

\* two calls, the second of which produced no fragment
C7_Witness ==
  /\ op = "addArgument"
  /\ passed = << <<Entry("skip", Num(2))>>,
                 <<Entry("skip", Num(0)), Entry("id", Undef)>> >>
  /\ Len(joinedArgs) = 1
  /\ Len(arguments) = 2

(***************************************************************************)
(* Properties of one addArgument call on a new builder (specification      *)
(* SpecEncode): joinedArgs is then what the call emitted for passed[1].    *)
(***************************************************************************)
\* the Default Keys as the specification lists them, in the order claimed
FiveKeys == <<"skip", "top", "inlinecount", "expand", "orderBy">>

IsCustomKey(k) == \A i \in 1..Len(FiveKeys) : FiveKeys[i] # k

\* an Attribute Pair: an object with both a key and a value field
IsPair(v) == v.t = "obj" /\ v.key # Undef /\ v.value # Undef

PairFragment(p) == TemplateString(p.key) \o <<"=">> \o TemplateString(p.value)

\* the fragments "$<k>=<value>" of the Default Keys keys[from..] that arg
\* carries with a truthy value, in the order of keys
RECURSIVE DefaultPart(_, _, _)
DefaultPart(arg, keys, from) ==
  IF from > Len(keys) THEN << >>
  ELSE (IF Truthy(Get(arg, keys[from]))
        THEN << <<"$", keys[from], "=">> \o TemplateString(Get(arg, keys[from])) >>
        ELSE << >>)
       \o DefaultPart(arg, keys, from + 1)

\* what the loop body emits for the entry e, alone
EntryFragments(e) == AdditionalEntry(<< >>, e.k, e.v).joined
EntryThrows(e) == AdditionalEntry(<< >>, e.k, e.v).threw

\* the entries' fragments in entry order, up to the entry that raises
RECURSIVE CustomPart(_, _)
CustomPart(arg, from) ==
  IF from > Len(arg) THEN << >>
  ELSE EntryFragments(arg[from])
       \o (IF EntryThrows(arg[from]) THEN << >> ELSE CustomPart(arg, from + 1))

Min(a, b) == IF a < b THEN a ELSE b

\* the fragments of joinedArgs that entry i of arg emitted: those after the
\* default-key fragments and after the fragments of the entries before i
RECURSIVE SegmentStart(_, _)
SegmentStart(arg, i) ==
  IF i = 1 THEN Len(DefaultPart(arg, FiveKeys, 1))
  ELSE SegmentStart(arg, i - 1) + Len(EntryFragments(arg[i - 1]))

Segment(arg, i) ==
  SubSeq(joinedArgs, SegmentStart(arg, i) + 1,
         Min(SegmentStart(arg, i) + Len(EntryFragments(arg[i])), Len(joinedArgs)))

OneCall == op = "addArgument" /\ Len(passed) = 1

\* C5: one call emits the default-key fragments in the order $skip, $top,
\* $inlinecount, $expand, $orderBy whatever the field order of the argument,
\* and after them the custom-key fragments in field insertion order.
C5_FragmentOrder ==
  OneCall =>
    joinedArgs = DefaultPart(passed[1], FiveKeys, 1) \o CustomPart(passed[1], 1)

\* the task argument of the tests with its fields in another order
C5_Witness ==
  /\ OneCall
  /\ passed[1] = TestTaskArgsReordered
  /\ joinedArgs = << <<"$", "skip", "=", "10">>, <<"$", "top", "=", "2">>,
                     <<"$", "inlinecount", "=", "allpages">>,
                     <<"$", "expand", "=", "something">>,
                     <<"$", "orderBy", "=", "id desc">>,
                     <<"priority", "=", "LOW">>, <<"priority", "=", "MEDIUM">>,
                     <<"dueDate", "=", "2025-02-01">>,
                     <<"workflowInstanceId", "=", "mambonumber5">> >>

\* the fragments emitted for the elements of a sequence els under entry i
\* are "<pair.key>=<pair.value>" wherever the element is an Attribute Pair
PairsOfSequenceRendered(arg, i, els) ==
  \A j \in 1..Min(Len(els), Len(Segment(arg, i))) :
    IsPair(els[j]) => Segment(arg, i)[j] = PairFragment(els[j])

\* C8 (as stated): every fragment emitted for an Attribute Pair that is the
\* value of a custom key, or an element of a sequence under a custom key
\* whatever the other elements are, is "<pair.key>=<pair.value>".
C8_PairNeverUnderCustomKey ==
  OneCall =>
    \A i \in 1..Len(passed[1]) :
      LET e == passed[1][i]
      IN IsCustomKey(e.k) =>
           /\ IsPair(e.v) =>
                \A j \in 1..Len(Segment(passed[1], i)) :
                  Segment(passed[1], i)[j] = PairFragment(e.v)
           /\ e.v.t = "arr" => PairsOfSequenceRendered(passed[1], i, e.v.els)

\* C8 (amended): the same for an Attribute Pair that is the value of a
\* custom key or an element of a sequence whose first element is an
\* Attribute Pair.
C8_PairRendering ==
  OneCall =>
    \A i \in 1..Len(passed[1]) :
      LET e == passed[1][i]
      IN IsCustomKey(e.k) =>
           /\ IsPair(e.v) =>
                \A j \in 1..Len(Segment(passed[1], i)) :
                  Segment(passed[1], i)[j] = PairFragment(e.v)
           /\ (e.v.t = "arr" /\ e.v.els # << >> /\ IsPair(e.v.els[1])) =>
                PairsOfSequenceRendered(passed[1], i, e.v.els)

\* the workflow argument of the tests: a sequence of two pairs under the
\* custom key attributes, after a default key and a scalar custom key
C8_Witness ==
  /\ OneCall
  /\ passed[1] = TestWorkflowArgs
  /\ Segment(passed[1], 3) = << <<"random", "=", "value">>,
                                <<"potato", "=", "carrot">> >>

\* C9: in a call that returns normally, every entry whose key is none of
\* skip, top, inlinecount, expand, orderBy and whose value is a number or a
\* string emits exactly the one fragment "<key>=<value>".
C9_OnlyFiveDefaultKeys ==
  (OneCall /\ ~threw) =>
    \A i \in 1..Len(passed[1]) :
      LET e == passed[1][i]
      IN (IsCustomKey(e.k) /\ e.v.t \in {"num", "str"}) =>
           Segment(passed[1], i) = << <<e.k, "=">> \o ScalarString(e.v) >>

\* C10: a custom key whose value is a sequence of n elements, none of them
\* an Attribute Pair, emits the n fragments "<key>=<element>" in element order.
C10_ArrayFlattening ==
  OneCall =>
    \A i \in 1..Len(passed[1]) :
      LET e == passed[1][i]
      IN (/\ IsCustomKey(e.k)
          /\ e.v.t = "arr"
          /\ \A j \in 1..Len(e.v.els) : ~IsPair(e.v.els[j])) =>
           /\ Len(Segment(passed[1], i)) = Len(e.v.els)
           /\ \A j \in 1..Len(e.v.els) :
                Segment(passed[1], i)[j] = <<e.k, "=">> \o TemplateString(e.v.els[j])

\* C11: a custom key whose value is a single Attribute Pair {key: k,
\* value: v} emits exactly the one fragment "k=v", whatever the custom key.
C11_PairFlattening ==
  OneCall =>
    \A i \in 1..Len(passed[1]) :
      LET e == passed[1][i]
      IN (IsCustomKey(e.k) /\ IsPair(e.v)) =>
           Segment(passed[1], i) = << PairFragment(e.v) >>

\* C12: a custom key whose value is a sequence of n Attribute Pairs emits,
\* at the key's place among the custom keys and after the default-key
\* fragments, exactly the n fragments "<pair.key>=<pair.value>" in order.
C12_PairSequenceFlattening ==
  OneCall =>
    \A i \in 1..Len(passed[1]) :
      LET e == passed[1][i]
      IN (/\ IsCustomKey(e.k)
          /\ e.v.t = "arr"
          /\ \A j \in 1..Len(e.v.els) : IsPair(e.v.els[j])) =>
           /\ Len(Segment(passed[1], i)) = Len(e.v.els)
           /\ \A j \in 1..Len(e.v.els) :
                Segment(passed[1], i)[j] = PairFragment(e.v.els[j])

\* C13: build() changes neither joinedArgs nor the Argument History, and a
\* build() that directly follows a build() returns the identical string.
C13_BuildPure ==
  [][op' = "build" =>
       /\ arguments' = arguments
       /\ joinedArgs' = joinedArgs
       /\ builds >= 1 => built' = built
    ]_vars

\* a second build() in a row on a builder that holds two fragments
C13_Witness ==
  /\ op = "build"
  /\ builds = 2
  /\ Len(joinedArgs) = 2
  /\ built = <<"?", "$", "skip", "=", "2", "&", "$", "top", "=", "10">>

(***************************************************************************)
(* Properties of constructQuery (specification SpecQuery).                 *)
(***************************************************************************)
\* C14: constructQuery returns "" for undefined, null and the empty string.
C14_EmptyForAbsent ==
  (op = "constructQuery" /\ query \in {Undef, Null, Str(<< >>)}) => result = << >>

\* constructQuery(null) while the builder holds fragments
C14_Witness ==
  /\ op = "constructQuery"
  /\ query = Null
  /\ joinedArgs # << >>
  /\ result = << >>

\* C15: constructQuery returns a string input unchanged.
C15_StringPassThrough ==
  (op = "constructQuery" /\ query.t = "str") => result = query.s

\* the string of the test, which has no "?" in front
C15_Witness ==
  /\ op = "constructQuery"
  /\ query = Str(<<"randomParameter=true">>)
  /\ result = <<"randomParameter=true">>

\* C16: constructQuery(builder) returns exactly the string that build()
\* returned in the state the builder is in.
C16_BuilderIsBuilt ==
  [][(op = "build" /\ op' = "constructQuery" /\ query' = Builder) =>
       result' = built]_vars

\* constructQuery(new QueryBuilder().addArgument({ skip: 2 })) after a build()
C16_Witness ==
  /\ op = "constructQuery"
  /\ query = Builder
  /\ joinedArgs = << <<"$", "skip", "=", "2">> >>
  /\ result = <<"?", "$", "skip", "=", "2">>

(***************************************************************************)
(* Properties of the values the builder hands back (specification Spec).   *)
(***************************************************************************)
\* C17: an addArgument call that returns hands back the builder it was
\* called on, so a chained addArgument acts on the same builder.
C17_ReturnsThis == (op = "addArgument" /\ ~threw) => returned = "this"

\* addArgument({ skip: 2 }).addArgument({ top: 10 }): the second call has
\* added its fragment to the fragments of the first
C17_Witness ==
  /\ op = "addArgument"
  /\ returned = "this"
  /\ passed = << <<Entry("skip", Num(2))>>, <<Entry("top", Num(10))>> >>
  /\ Len(joinedArgs) = 2
  /\ Len(arguments) = 2

(***************************************************************************)
(* Further properties of one addArgument call on a new builder             *)
(* (specification SpecEncode).                                             *)
(***************************************************************************)
\* the fragments of joinedArgs that begin with the tokens of start
FragmentsWith(start) ==
  {j \in 1..Len(joinedArgs) : IsPrefix(start, joinedArgs[j])}

\* a truthy value: anything but undefined, null, 0 and ""
IsTruthyValue(v) == v \notin {Undef, Null, Num(0), Str(<< >>)}

\* C18: a default key with a truthy value emits exactly one fragment, its
\* $-prefix followed by the value; a default key whose value is 0 or ""
\* emits no fragment, neither "$<key>=..." nor "<key>=...".
C18_DefaultKeyTruthiness ==
  OneCall =>
    \A i \in 1..Len(FiveKeys) :
      LET k == FiveKeys[i]
          v == Get(passed[1], k)
      IN /\ IsTruthyValue(v) =>
              /\ Cardinality(FragmentsWith(<<"$", k, "=">>)) = 1
              /\ \A j \in FragmentsWith(<<"$", k, "=">>) :
                   joinedArgs[j] = <<"$", k, "=">> \o TemplateString(v)
         /\ v \in {Num(0), Str(<< >>)} =>
              /\ FragmentsWith(<<"$", k, "=">>) = {}
              /\ FragmentsWith(<<k, "=">>) = {}

\* { skip: 0, top: 2 }: only $top=2 is emitted
C18_Witness ==
  /\ OneCall
  /\ passed[1] = <<Entry("skip", Num(0)), Entry("top", Num(2))>>
  /\ joinedArgs = << <<"$", "top", "=", "2">> >>

\* "<el.key>=<el.value>" of a sequence element
ElementAsPair(el) ==
  TemplateString(Prop(el, "key")) \o <<"=">> \o TemplateString(Prop(el, "value"))

\* C19: a sequence under a custom key emits one fragment per element; all
\* of them "<el.key>=<el.value>" when the first element is an Attribute
\* Pair, all of them "<key>=<element>" otherwise.
C19_FirstElementDecides ==
  OneCall =>
    \A i \in 1..Len(passed[1]) :
      LET e == passed[1][i]
      IN (IsCustomKey(e.k) /\ e.v.t = "arr") =>
           /\ Len(Segment(passed[1], i)) = Len(e.v.els)
           /\ \A j \in 1..Len(e.v.els) :
                Segment(passed[1], i)[j] =
                  IF IsPair(e.v.els[1]) THEN ElementAsPair(e.v.els[j])
                  ELSE <<e.k, "=">> \o TemplateString(e.v.els[j])

\* the strings of els with "," between them
RECURSIVE StringsJoined(_)
StringsJoined(els) ==
  IF els = << >> THEN << >>
  ELSE IF Len(els) = 1 THEN els[1].s
  ELSE StringsJoined(SubSeq(els, 1, Len(els) - 1)) \o <<",">> \o els[Len(els)].s

\* C20: expand given as a sequence of strings, the empty one included,
\* emits exactly one fragment "$expand=<the strings joined by ','>", and no
\* fragment per element.
C20_ExpandSequenceOneFragment ==
  OneCall =>
    LET v == Get(passed[1], "expand")
    IN (v.t = "arr" /\ \A j \in 1..Len(v.els) : v.els[j].t = "str") =>
         /\ Cardinality(FragmentsWith(<<"$", "expand", "=">>)) = 1
         /\ \A j \in FragmentsWith(<<"$", "expand", "=">>) :
              joinedArgs[j] = <<"$", "expand", "=">> \o StringsJoined(v.els)
         /\ FragmentsWith(<<"expand", "=">>) = {}

\* { expand: ["LOW", "MEDIUM"] }
C20_Witness ==
  /\ OneCall
  /\ passed[1] = <<Entry("expand", Arr(<<Str(<<"LOW">>), Str(<<"MEDIUM">>)>>))>>
  /\ joinedArgs = << <<"$", "expand", "=", "LOW", ",", "MEDIUM">> >>

\* an entry that must emit nothing: an undefined value, or an empty
\* sequence under a custom key
EmitsNothing(e) == e.v = Undef \/ (IsCustomKey(e.k) /\ e.v = Arr(<< >>))

\* C21: an entry whose value is undefined, and a custom key whose value is
\* an empty sequence, emit no fragment; an argument made of such entries
\* only emits nothing, and build() on the new builder then returns "".
C21_NothingForUndefinedOrEmpty ==
  Len(passed) = 1 =>
    /\ op = "addArgument" =>
         \A i \in 1..Len(passed[1]) :
           EmitsNothing(passed[1][i]) =>
             /\ Segment(passed[1], i) = << >>
             /\ FragmentsWith(<<"$", passed[1][i].k, "=">>) = {}
    /\ (\A i \in 1..Len(passed[1]) : EmitsNothing(passed[1][i])) =>
         /\ joinedArgs = << >>
         /\ op = "build" => built = << >>

\* build() after addArgument({ priority: [], attributes: undefined })
C21_Witness ==
  /\ op = "build"
  /\ passed = << <<Entry("priority", Arr(<< >>)), Entry("attributes", Undef)>> >>
  /\ Len(arguments) = 1
  /\ built = << >>

\* C22: when obtaining the connection or the transport call of a client
\* method fails with error e, the method has logged e and its promise is
\* rejected with that very e: it is never resolved, and what every catch
\* block logged and raised is e itself.
C22_LoggedAndRethrown ==
  \A c \in ClientCalls :
    /\ calls[c].failed # "none" =>
         /\ calls[c].pc = "done"
         /\ calls[c].outcome = "rejected"
         /\ calls[c].rejection = calls[c].failed
         /\ calls[c].logs # << >>
         /\ \A i \in 1..Len(calls[c].logs) : calls[c].logs[i] = calls[c].failed
    /\ calls[c].outcome = "resolved" =>
         calls[c].failed = "none" /\ calls[c].logs = << >>
    /\ calls[c].outcome = "rejected" => calls[c].failed \in Errors

\* deleteWorkflowInstances whose patch request failed with E2 after the list
\* had succeeded, while a getTaskList failed to connect with E1
C22_Witness ==
  \E c, d \in ClientCalls :
    /\ calls[c].method = "deleteWorkflowInstances"
    /\ Len(calls[c].requests) = 2
    /\ calls[c].failed = "E2"
    /\ calls[c].rejection = "E2"
    /\ calls[c].logs = <<"E2", "E2">>
    /\ calls[d].method = "getTaskList"
    /\ calls[d].requests = << >>
    /\ calls[d].rejection = "E1"
    /\ calls[d].logs = <<"E1">>

\* C23: a client instance connects at most once: over every interleaving of
\* its method calls cds.connect.to is invoked at most one time, and every
\* call that holds a connection holds the one cached in serviceConnection.
C23_ConnectsOnce ==
  /\ connects <= 1
  /\ \A c \in ClientCalls :
       calls[c].client # 0 => calls[c].client = serviceConnection

\* the payload with one {id, deleted: true} entry per instance of `els`, in
\* the same order
OneEntryPerInstance(payload, els) ==
  /\ Len(payload) = Len(els)
  /\ \A j \in 1..Len(els) :
       payload[j] = [id |-> els[j].id, deleted |-> TRUE]

\* the instances a list response holds (none when it is undefined)
InstancesOf(res) == IF res = Undef THEN << >> ELSE res.els

\* C24: deleteWorkflowInstances first issues the list request built from the
\* given QueryBuilder; it issues at most one more request, a patch, only
\* after the list has resolved, with one {id, deleted: true} entry per
\* returned instance in the same order; when the list request (or the
\* connection before it) fails, no patch request is sent.
C24_ListThenPatch ==
  \A c \in ClientCalls :
    calls[c].method = "deleteWorkflowInstances" =>
      LET reqs == calls[c].requests
      IN /\ Len(reqs) <= 2
         /\ Len(reqs) >= 1 =>
              /\ reqs[1].verb = "get"
              /\ reqs[1].path =
                   WORKFLOW_INSTANCES_URI \o BuildString(joinedArgs)
         /\ Len(reqs) = 2 =>
              /\ calls[c].listed
              /\ reqs[2].verb = "patch"
              /\ reqs[2].path = WORKFLOW_INSTANCES_URI
              /\ OneEntryPerInstance(reqs[2].body,
                                     InstancesOf(calls[c].workflows))
         /\ (calls[c].failed # "none" /\ ~calls[c].listed) => Len(reqs) <= 1
         /\ (calls[c].outcome = "resolved") => Len(reqs) = 2

\* a deleteWorkflowInstances that resolved after listing w2, w1 with the
\* query "?$top=10" and patching them as deleted, in that order
C24_Witness ==
  \E c \in ClientCalls :
    /\ calls[c].method = "deleteWorkflowInstances"
    /\ calls[c].outcome = "resolved"
    /\ calls[c].requests[1].path =
         <<"/v1", "/workflow-instances", "?", "$", "top", "=", "10">>
    /\ calls[c].requests[2].body =
         <<[id |-> "w2", deleted |-> TRUE], [id |-> "w1", deleted |-> TRUE]>>

\* C25: in every state reached through addArgument, flush, build,
\* getArguments and a caller mutating the array getArguments returned, a
\* non-empty joinedArgs comes with a non-empty arguments array, and build()
\* has not returned a non-empty string while the history is empty.
C25_FragmentsImplyHistory ==
  /\ joinedArgs # << >> => arguments # << >>
  /\ (op = "build" /\ built # << >>) => arguments # << >>

====
